---- MODULE Spec2Model ----
(***************************************************************************)
(* A model of recommendmovie.py: the similarity library, the genre tf-idf  *)
(* weighting, the prediction engine (get_rating), the leave-one-out        *)
(* cross-validation loop and the serving loop.                             *)
(*                                                                         *)
(* Numbers.  Python floats are modelled as fixed-point numbers: the        *)
(* integer x stands for the real x / Scale.  A dict is a sequence of       *)
(* <<key, value>> pairs with distinct keys, in insertion order (the order  *)
(* Python iterates it in).  A call that can raise returns a record         *)
(* [exc, val]: exc = "none" and the value, or the name of the exception.   *)
(***************************************************************************)
EXTENDS Integers, Sequences, FiniteSets, TLC

\* ------------------------------------------------------------------ bounds
NumItems == 2
MaxRating == 2
MaxPop == 2

\* Resolution of the fixed-point numbers (1 / Scale).
Scale == 100

Items == 1..NumItems
Real(n) == n * Scale

\* ------------------------------------------------------------- arithmetic
Abs(x) == IF x < 0 THEN -x ELSE x

\* a / b for b > 0, rounded to the nearest integer
RoundDiv(a, b) == IF a >= 0 THEN (2 * a + b) \div (2 * b)
                  ELSE -((2 * (-a) + b) \div (2 * b))

Return(v) == [exc |-> "none", val |-> v]
Raise(e) == [exc |-> e, val |-> 0]
ZeroDivisionError == Raise("ZeroDivisionError")
Raised(r) == r.exc /= "none"

\* x * y
Mul(x, y) == RoundDiv(x * y, Scale)

\* x / y: Python's true division, which raises on a zero divisor
Div(x, y) == IF y = 0 THEN ZeroDivisionError
             ELSE IF y > 0 THEN Return(RoundDiv(x * Scale, y))
             ELSE Return(RoundDiv((-x) * Scale, -y))

RECURSIVE ISqrt(_, _, _)
\* the largest r in lo..hi with r * r <= n (lo * lo <= n < (hi + 1)^2)
ISqrt(n, lo, hi) ==
    IF lo >= hi THEN lo
    ELSE LET m == (lo + hi + 1) \div 2
         IN IF m * m <= n THEN ISqrt(n, m, hi) ELSE ISqrt(n, lo, m - 1)

\* math.sqrt(x), x >= 0 (46340 is the largest root of a 32-bit integer)
Sqrt(x) == ISqrt(x * Scale, 0, IF x * Scale < 46340 THEN x * Scale ELSE 46340)

\* ------------------------------------------------------------------ dicts
Range(s) == {s[i] : i \in DOMAIN s}
Keys(d) == {d[i][1] : i \in DOMAIN d}
Has(d, k) == k \in Keys(d)
Get(d, k) == (CHOOSE p \in Range(d) : p[1] = k)[2]

RECURSIVE SumSeq(_)
SumSeq(s) == IF s = <<>> THEN 0 ELSE Head(s) + SumSeq(Tail(s))

\* sum(rating for _, rating in d.items())
SumValues(d) == SumSeq([i \in DOMAIN d |-> d[i][2]])

\* The sequences over S without repetition, of length at most n
RECURSIVE Arrangements(_, _)
Arrangements(S, n) ==
    IF n = 0 THEN {<<>>}
    ELSE {<<>>} \cup UNION {{<<x>> \o t : t \in Arrangements(S \ {x}, n - 1)} : x \in S}

\* The dicts with the key order ks, values in V
DictsOn(ks, V) == {[i \in DOMAIN ks |-> <<ks[i], v[i]>>] : v \in [DOMAIN ks -> V]}

\* The rating vectors over the items, with ratings in V
Vectors(V) == UNION {DictsOn(ks, V) : ks \in Arrangements(Items, NumItems)}

\* --------------------------------------------------- similarity library
PearsonNumer(our_vector, other_vector, our_avg, other_avg) ==
    SumSeq([i \in DOMAIN our_vector |->
        IF Has(other_vector, our_vector[i][1])
        THEN Mul(our_vector[i][2] - our_avg,
                 Get(other_vector, our_vector[i][1]) - other_avg)
        ELSE 0])

\* sum((rating - avg) ** 2 for _, rating in vector.items())
SumSqDev(vector, avg) ==
    SumSeq([i \in DOMAIN vector |-> Mul(vector[i][2] - avg, vector[i][2] - avg)])

PearsonDenom(our_vector, other_vector, our_avg, other_avg) ==
    Mul(SumSqDev(our_vector, our_avg), SumSqDev(other_vector, other_avg))

\* pearson_correlation with the guard on a zero denominator left out
pearson_unguarded(our_vector, other_vector, our_avg, other_avg) ==
    Div(PearsonNumer(our_vector, other_vector, our_avg, other_avg),
        Sqrt(PearsonDenom(our_vector, other_vector, our_avg, other_avg)))

pearson_correlation(our_vector, other_vector, our_avg, other_avg) ==
    LET numer == PearsonNumer(our_vector, other_vector, our_avg, other_avg)
        denom == PearsonDenom(our_vector, other_vector, our_avg, other_avg)
    IN IF denom = 0 THEN Return(0) ELSE Div(numer, Sqrt(denom))

\* the dot product over the shared keys
DotShared(our_vector, other_vector) ==
    SumSeq([i \in DOMAIN our_vector |->
        IF Has(other_vector, our_vector[i][1])
        THEN Mul(our_vector[i][2], Get(other_vector, our_vector[i][1]))
        ELSE 0])

\* sqrt(sum(rating ** 2 for _, rating in vector.items()))
Norm(vector) == Sqrt(SumSqDev(vector, 0))

\* cosine_similarity failing whenever the vectors share no key
cosine_disjoint_fails(our_vector, other_vector) ==
    IF Keys(our_vector) \cap Keys(other_vector) = {} THEN ZeroDivisionError
    ELSE Div(DotShared(our_vector, other_vector),
             Mul(Norm(our_vector), Norm(other_vector)))

cosine_similarity(our_vector, other_vector) ==
    LET numer == DotShared(our_vector, other_vector)
        denom == Mul(Norm(our_vector), Norm(other_vector))
    IN Div(numer, denom)

euclidean_distance(our_vector, other_vector) ==
    Return(Sqrt(SumSeq([i \in DOMAIN our_vector |->
        IF Has(other_vector, our_vector[i][1])
        THEN Mul(our_vector[i][2] - Get(other_vector, our_vector[i][1]),
                 our_vector[i][2] - Get(other_vector, our_vector[i][1]))
        ELSE 0])))

\* ------------------------------------------------- genre-weighting module
Genres == {"A", "B"}

\* math.log(p / q) for integers p, q >= 1, from the table of ln(1), ln(2), ...
LnTable == <<0, 69, 110, 139, 161, 179, 195, 208, 220, 230, 240, 248>>
Log(p, q) == IF p \in DOMAIN LnTable /\ q \in DOMAIN LnTable
             THEN Return(RoundDiv((LnTable[p] - LnTable[q]) * Scale, 100))
             ELSE Raise("ValueError")

\* r, or what F makes of r's value when r did not raise
Then(r, F(_)) == IF Raised(r) THEN r ELSE F(r.val)

\* Python's truth value of a number (a bool is the number 0 or 1)
Truthy(x) == x /= 0
PyBool(b) == IF b THEN 1 ELSE 0

RECURSIVE Concat(_)
Concat(ss) == IF ss = <<>> THEN <<>> ELSE Head(ss) \o Concat(Tail(ss))

\* The genre labels met while iterating a user's ratings, one per occurrence
GenreTokens(user_ratings, movies) ==
    Concat([i \in DOMAIN user_ratings |-> movies[user_ratings[i][1]]])

RECURSIVE Distinct(_)
\* s without the later repetitions of an element
Distinct(s) ==
    IF s = <<>> THEN <<>>
    ELSE LET init == Distinct(SubSeq(s, 1, Len(s) - 1))
             last == s[Len(s)]
         IN IF last \in Range(init) THEN init ELSE Append(init, last)

\* get_genre_frequencies: genre -> the number of times it occurs
get_genre_frequencies(user_ratings, movies) ==
    LET toks == GenreTokens(user_ratings, movies)
    IN [g \in Range(toks) |-> Cardinality({i \in DOMAIN toks : toks[i] = g})]

\* genre_frequencies.get(genre, 0)
FreqGet(genre_frequencies, genre) ==
    IF genre \in DOMAIN genre_frequencies THEN genre_frequencies[genre] ELSE 0

Max(S) == CHOOSE x \in S : \A y \in S : y <= x

RECURSIVE SumOver(_, _)
SumOver(f, S) == IF S = {} THEN 0
                 ELSE LET x == CHOOSE y \in S : TRUE
                      IN f[x] + SumOver(f, S \ {x})

term_frequency(genre_frequencies, genre, augmented, boolean, logarithmic) ==
    IF augmented
    THEN IF DOMAIN genre_frequencies = {} THEN Raise("ValueError")
         ELSE Return(Scale \div 2
                + RoundDiv(Div(Real(FreqGet(genre_frequencies, genre)),
                          Real(Max({genre_frequencies[g] : g \in DOMAIN genre_frequencies}))).val, 2))
    ELSE IF boolean
    THEN Return(IF genre \in DOMAIN genre_frequencies THEN Real(1) ELSE 0)
    ELSE IF logarithmic
    THEN Log(1 + FreqGet(genre_frequencies, genre), 1)
    ELSE Div(Real(FreqGet(genre_frequencies, genre)),
             Real(SumOver(genre_frequencies, DOMAIN genre_frequencies)))

inverse_document_frequency(genre, corpus, n, smooth) ==
    IF genre \notin DOMAIN corpus THEN Return(0)
    ELSE IF smooth THEN Log(1 + n, corpus[genre])
    ELSE Log(n, corpus[genre])

tf_idf(genre_frequencies, genre, corpus, n, augmented, boolean, logarithmic, smooth) ==
    Then(term_frequency(genre_frequencies, genre, augmented, boolean, logarithmic),
         LAMBDA tf : Then(inverse_document_frequency(genre, corpus, n, smooth),
                          LAMBDA idf : Return(Mul(tf, idf))))

\* The first exception among the results rs, or "none"
FirstRaised(rs) ==
    IF \E i \in DOMAIN rs : Raised(rs[i])
    THEN rs[CHOOSE i \in DOMAIN rs : Raised(rs[i]) /\ \A j \in 1..(i - 1) : ~Raised(rs[j])]
    ELSE Return(0)

\* The tf-idf vector of genre_frequencies over the genres of our_user_ratings'
\* items, in the order the loop of get_genre_weight first meets them
TfIdfVector(genre_frequencies, our_user_ratings, movies, corpus, n, augmented, boolean, logarithmic, smooth) ==
    LET keys == Distinct(GenreTokens(our_user_ratings, movies))
    IN [i \in DOMAIN keys |->
          tf_idf(genre_frequencies, keys[i], corpus, n, augmented, boolean, logarithmic, smooth)]

Average(vector) == Div(SumValues(vector), Real(Len(vector)))

\* The loop of get_genre_weight with other_vector keyed by the compared user's
\* own genres instead of the primary user's
genre_vectors_own_keys(our_user_ratings, other_user_ratings, our_genre_frequencies, movies, corpus, n, augmented, boolean, logarithmic, smooth) ==
    LET genre_frequencies == get_genre_frequencies(other_user_ratings, movies)
        keys == Distinct(GenreTokens(our_user_ratings, movies))
        own == Distinct(GenreTokens(other_user_ratings, movies))
        others == TfIdfVector(genre_frequencies, other_user_ratings, movies, corpus, n,
                              augmented, boolean, logarithmic, smooth)
        ours == TfIdfVector(our_genre_frequencies, our_user_ratings, movies, corpus, n,
                            augmented, boolean, logarithmic, smooth)
    IN IF Raised(FirstRaised(others \o ours)) THEN FirstRaised(others \o ours)
       ELSE Return([our_vector |-> [i \in DOMAIN keys |-> <<keys[i], ours[i].val>>],
                    other_vector |-> [i \in DOMAIN own |-> <<own[i], others[i].val>>]])

\* The loop of get_genre_weight: the two tf-idf vectors it builds, or the
\* exception a tf_idf call raises
genre_vectors(our_user_ratings, other_user_ratings, our_genre_frequencies, movies, corpus, n, augmented, boolean, logarithmic, smooth) ==
    LET genre_frequencies == get_genre_frequencies(other_user_ratings, movies)
        keys == Distinct(GenreTokens(our_user_ratings, movies))
        others == TfIdfVector(genre_frequencies, our_user_ratings, movies, corpus, n,
                              augmented, boolean, logarithmic, smooth)
        ours == TfIdfVector(our_genre_frequencies, our_user_ratings, movies, corpus, n,
                            augmented, boolean, logarithmic, smooth)
        \* the loop assigns other_vector[genre] before our_vector[genre]
        both == [i \in 1..(2 * Len(keys)) |->
                    IF i % 2 = 1 THEN others[(i + 1) \div 2] ELSE ours[i \div 2]]
    IN IF Raised(FirstRaised(both)) THEN FirstRaised(both)
       ELSE Return([our_vector |-> [i \in DOMAIN keys |-> <<keys[i], ours[i].val>>],
                    other_vector |-> [i \in DOMAIN keys |-> <<keys[i], others[i].val>>]])

\* The tail of get_genre_weight: the function the flags select, applied to the
\* two vectors; cosine and euclidean are tested for truth as Python does
genre_similarity(our_vector, other_vector, cosine, euclidean) ==
    IF Truthy(cosine) THEN cosine_similarity(our_vector, other_vector)
    ELSE IF Truthy(euclidean) THEN euclidean_distance(our_vector, other_vector)
    ELSE Then(Average(our_vector), LAMBDA our_avg :
         Then(Average(other_vector), LAMBDA other_avg :
              pearson_correlation(our_vector, other_vector, our_avg, other_avg)))

get_genre_weight(our_user_ratings, other_user_ratings, our_genre_frequencies, movies, corpus, n, cosine, euclidean, augmented, boolean, logarithmic, smooth) ==
    Then(genre_vectors(our_user_ratings, other_user_ratings, our_genre_frequencies,
                       movies, corpus, n, augmented, boolean, logarithmic, smooth),
         LAMBDA v : genre_similarity(v.our_vector, v.other_vector, cosine, euclidean))

\* ------------------------------------------------------ prediction engine
\* corpus: genre -> the number of users of the population who rated it
Corpus(all_other_user_ratings, movies) ==
    LET seen(i) == Range(GenreTokens(all_other_user_ratings[i], movies))
    IN [g \in UNION {seen(i) : i \in DOMAIN all_other_user_ratings} |->
          Cardinality({i \in DOMAIN all_other_user_ratings : g \in seen(i)})]

\* The value of the name mid after the corpus loops: the loop over
\* other_user_ratings.items() binds the function's own parameter mid, so it is
\* left at the last key of the last non-empty vector of the population
MidAfterCorpus(mid, all_other_user_ratings) ==
    LET filled == {i \in DOMAIN all_other_user_ratings : all_other_user_ratings[i] /= <<>>}
    IN IF filled = {} THEN mid
       ELSE LET last == all_other_user_ratings[Max(filled)]
            IN last[Len(last)][1]

\* denom += weight, without the absolute value
AddSigned(denom, weight) == denom + weight

\* denom += abs(weight)
AddAbs(denom, weight) == denom + Abs(weight)

\* The weight of one neighbour, as the branches of get_rating select it.  The
\* call of get_genre_weight is positional: our_avg and other_avg are bound to
\* its parameters cosine and euclidean, the flags cosine and euclidean to its
\* parameters augmented and boolean
Weight(our_user_ratings, other_user_ratings, our_genre_frequencies, movies, corpus, n, our_avg, other_avg, use_genres, cosine, euclidean) ==
    IF use_genres
    THEN get_genre_weight(our_user_ratings, other_user_ratings, our_genre_frequencies,
                          movies, corpus, n, our_avg, other_avg, cosine, euclidean,
                          TRUE, TRUE)
    ELSE IF cosine THEN cosine_similarity(our_user_ratings, other_user_ratings)
    ELSE IF euclidean THEN euclidean_distance(our_user_ratings, other_user_ratings)
    ELSE pearson_correlation(our_user_ratings, other_user_ratings, our_avg, other_avg)

\* The neighbour loop of get_rating from neighbour i on, with the locals in acc:
\* numer, denom, the exception raised (exc) and, for each neighbour that
\* contributed, its index, diff and weight (contrib)
RECURSIVE NeighborLoop(_, _, _, _, _, _, _, _, _, _, _, _)
NeighborLoop(i, acc, mid, movies, our_user_ratings, all_other_user_ratings, our_avg, use_genres, cosine, euclidean, corpus, our_genre_frequencies) ==
    IF i > Len(all_other_user_ratings) \/ acc.exc /= "none" THEN acc
    ELSE LET other_user_ratings == all_other_user_ratings[i]
             next(a) == NeighborLoop(i + 1, a, mid, movies, our_user_ratings,
                                     all_other_user_ratings, our_avg, use_genres,
                                     cosine, euclidean, corpus, our_genre_frequencies)
         IN IF ~Has(other_user_ratings, mid) THEN next(acc)
            ELSE LET other_avg == Average(other_user_ratings).val
                     diff == Get(other_user_ratings, mid) - other_avg
                     weight == Weight(our_user_ratings, other_user_ratings,
                                      our_genre_frequencies, movies, corpus,
                                      Len(all_other_user_ratings), our_avg, other_avg,
                                      use_genres, cosine, euclidean)
                 IN IF Raised(weight) THEN [acc EXCEPT !.exc = weight.exc]
                    ELSE next([acc EXCEPT
                               !.numer = @ + Mul(diff, weight.val),
                               !.denom = AddAbs(@, weight.val),
                               !.contrib = Append(@, [nb |-> i, diff |-> diff,
                                                      weight |-> weight.val])])

\* One call of get_rating: what it returns or raises (result), the neighbours
\* that contributed (contrib) and the item they were asked about (mid)
GetRatingRun(mid, movies, our_user_ratings, all_other_user_ratings, our_avg, use_genres, cosine, euclidean) ==
    LET target == IF use_genres THEN MidAfterCorpus(mid, all_other_user_ratings) ELSE mid
        corpus == IF use_genres THEN Corpus(all_other_user_ratings, movies) ELSE <<>>
        our_genre_frequencies ==
            IF use_genres THEN get_genre_frequencies(our_user_ratings, movies) ELSE <<>>
        acc == NeighborLoop(1, [numer |-> 0, denom |-> 0, exc |-> "none", contrib |-> <<>>],
                            target, movies, our_user_ratings, all_other_user_ratings,
                            our_avg, use_genres, cosine, euclidean, corpus,
                            our_genre_frequencies)
    IN [result |-> IF acc.exc /= "none" THEN Raise(acc.exc)
                   ELSE Then(Div(acc.numer, acc.denom), LAMBDA q : Return(our_avg + q)),
        contrib |-> acc.contrib,
        mid |-> target]

get_rating(mid, movies, our_user_ratings, all_other_user_ratings, our_avg, use_genres, cosine, euclidean) ==
    GetRatingRun(mid, movies, our_user_ratings, all_other_user_ratings, our_avg,
                 use_genres, cosine, euclidean).result

\* ================================================================== state
VARIABLES
    pc,          \* where the program is
    vectors,     \* the arguments of a call of the similarity library
    similarity,  \* what the three measures returned or raised for them
    call,        \* the arguments of a call of get_rating
    prediction,  \* that call's outcome (GetRatingRun)
    uid_to_ratings,  \* cross-validation: the users' vectors, in the table's order
    mid_to_uids,     \* item -> the set of the users who rated it
    catalog,         \* movies: item -> its genres
    ratio,           \* percent / 100
    user_idx,        \* the position of the loop over uid_to_ratings.items()
    item_idx,        \* the position of the loop over current_user_ratings
    dif,             \* the four sums of squared errors, by mode
    length,          \* the four sample counts, by mode
    rmse,            \* what the routine returned or raised
    draws,           \* history: the value random() returned for each user
    samples,         \* history: the held-out samples processed so far
    set_order,       \* the order in which this run iterates a set of uids
    ratings_csv,     \* serving: the rows of ratings.csv, as <<uid, mid, rating>>
    movies_csv,      \* the rows of movies.csv: item -> its genres
    request,         \* user_id, movie_ids and the flags of the command line
    next_idx,        \* the position of get_predicted_ratings in movie_ids
    printed,         \* the (movie, rating) pairs main has received so far
    failure,         \* the exception that ended the run, if any
    relevant         \* what get_relevant_user_ratings made for the last item asked

simVars == <<vectors, similarity>>
rateVars == <<call, prediction>>
cvVars == <<uid_to_ratings, mid_to_uids, catalog, ratio, user_idx, item_idx, dif, length,
            rmse, draws, samples, set_order>>
serveVars == <<ratings_csv, movies_csv, request, next_idx, printed, failure, relevant>>
vars == <<pc, simVars, rateVars, cvVars, serveVars>>

Idle == <<>>

\* ------------------------------------------- the similarity library, called
RatingValues == {Real(r) : r \in 1..MaxRating}
\* the core does not enforce the rating scale: 0 is a rating too
SimVectors == Vectors({0} \cup RatingValues)
Means == {(k * Scale) \div 2 : k \in 0..(2 * MaxRating)}

InitSim ==
    /\ pc = "similarity"
    /\ vectors \in [our_vector : SimVectors, other_vector : SimVectors,
                    our_avg : Means, other_avg : Means]
    /\ similarity = Idle
    /\ call = Idle
    /\ prediction = Idle
    /\ uid_to_ratings = Idle
    /\ mid_to_uids = Idle
    /\ catalog = Idle
    /\ ratio = Idle
    /\ user_idx = Idle
    /\ item_idx = Idle
    /\ dif = Idle
    /\ length = Idle
    /\ rmse = Idle
    /\ draws = Idle
    /\ samples = Idle
    /\ set_order = Idle
    /\ ratings_csv = Idle
    /\ movies_csv = Idle
    /\ request = Idle
    /\ next_idx = Idle
    /\ printed = Idle
    /\ failure = Idle
    /\ relevant = Idle

CallSimilarity ==
    /\ pc = "similarity"
    /\ similarity' =
         [pearson |-> pearson_correlation(vectors.our_vector, vectors.other_vector,
                                          vectors.our_avg, vectors.other_avg),
          cosine |-> cosine_similarity(vectors.our_vector, vectors.other_vector),
          euclidean |-> euclidean_distance(vectors.our_vector, vectors.other_vector)]
    /\ pc' = "compared"
    /\ UNCHANGED <<vectors, rateVars, cvVars, serveVars>>

NextSim == CallSimilarity

SpecSim == InitSim /\ [][NextSim]_vars

\* ----------------------------------------------------------------- claims
NoSharedKey ==
    /\ vectors.our_vector /= <<>>
    /\ vectors.other_vector /= <<>>
    /\ Keys(vectors.our_vector) \cap Keys(vectors.other_vector) = {}

AllZero(vector) == \A i \in DOMAIN vector : vector[i][2] = 0

\* C8 as stated: for two non-empty vectors sharing no key, pearson_correlation
\* and cosine_similarity both raise ZeroDivisionError and euclidean_distance
\* returns 0.
C8_DisjointPearsonCosineFail ==
    (pc = "compared" /\ NoSharedKey) =>
        /\ similarity.pearson = ZeroDivisionError
        /\ similarity.cosine = ZeroDivisionError
        /\ similarity.euclidean = Return(0)

\* C8 amended: for two non-empty vectors sharing no key, pearson_correlation
\* returns 0, euclidean_distance returns 0, and cosine_similarity returns 0
\* unless one of the vectors holds only zero ratings (a zero norm), in which
\* case it raises ZeroDivisionError.
C8_DisjointVectors ==
    (pc = "compared" /\ NoSharedKey) =>
        /\ similarity.pearson = Return(0)
        /\ similarity.euclidean = Return(0)
        /\ similarity.cosine =
             IF AllZero(vectors.our_vector) \/ AllZero(vectors.other_vector)
             THEN ZeroDivisionError ELSE Return(0)

C8_Witness ==
    /\ pc = "compared"
    /\ NoSharedKey
    /\ ~AllZero(vectors.our_vector)
    /\ ~AllZero(vectors.other_vector)
    /\ vectors.our_avg /= vectors.our_vector[1][2]
    /\ vectors.other_avg /= vectors.other_vector[1][2]
    /\ similarity.cosine = Return(0)
    /\ similarity.pearson = Return(0)

\* The sum of the squared deviations of a vector's ratings from avg, over its
\* key set
SqDevOverKeys(vector, avg) ==
    SumOver([k \in Keys(vector) |-> Mul(Get(vector, k) - avg, Get(vector, k) - avg)],
            Keys(vector))

\* The cross term over the keys the two vectors share
CrossTerm(v, w, v_avg, w_avg) ==
    SumOver([k \in Keys(v) \cap Keys(w) |-> Mul(Get(v, k) - v_avg, Get(w, k) - w_avg)],
            Keys(v) \cap Keys(w))

Flat(vector, avg) == \A i \in DOMAIN vector : vector[i][2] = avg

\* C10: pearson_correlation never raises; when the product of the two
\* full-vector sums of squared deviations is 0 (in particular for a flat or an
\* empty vector on either side) it returns 0, and otherwise it returns the
\* shared-key cross term divided by the square root of that product.
C10_PearsonTotal ==
    pc = "compared" =>
        LET product == Mul(SqDevOverKeys(vectors.our_vector, vectors.our_avg),
                           SqDevOverKeys(vectors.other_vector, vectors.other_avg))
            cross == CrossTerm(vectors.our_vector, vectors.other_vector,
                               vectors.our_avg, vectors.other_avg)
        IN /\ ~Raised(similarity.pearson)
           /\ (Flat(vectors.our_vector, vectors.our_avg)
               \/ Flat(vectors.other_vector, vectors.other_avg)) => product = 0
           /\ product = 0 => similarity.pearson.val = 0
           /\ product /= 0 =>
                similarity.pearson.val = RoundDiv(cross * Scale, Sqrt(product))

C10_Witness ==
    /\ pc = "compared"
    /\ Flat(vectors.our_vector, vectors.our_avg)
    /\ vectors.our_vector /= <<>>
    /\ ~Flat(vectors.other_vector, vectors.other_avg)
    /\ Keys(vectors.our_vector) \cap Keys(vectors.other_vector) /= {}
    /\ similarity.pearson = Return(0)

\* ------------------------------------------------------ get_rating, called
RateVectors == Vectors(RatingValues)

\* The sequences over S of length at most n
RECURSIVE SeqsUpTo(_, _)
SeqsUpTo(S, n) ==
    IF n = 0 THEN {<<>>}
    ELSE {<<>>} \cup {<<x>> \o t : x \in S, t \in SeqsUpTo(S, n - 1)}

\* A neighbour has rated something
Populations == SeqsUpTo(RateVectors \ {<<>>}, MaxPop)

\* movies[mid].genres: split('|') yields at least one label
GenreLists == Arrangements(Genres, Cardinality(Genres)) \ {<<>>}
RatingCatalogs == [Items -> {<<"A">>, <<"A", "B">>}]

\* the flags come from a mutually exclusive group of options
ModeFlags == {f \in [cosine : BOOLEAN, euclidean : BOOLEAN] : ~(f.cosine /\ f.euclidean)}

\* our_avg as the callers compute it, or 0
AvgChoices(our_user_ratings) ==
    {0} \cup (IF our_user_ratings = <<>> THEN {} ELSE {Average(our_user_ratings).val})

InitRating ==
    /\ pc = "get_rating"
    /\ \E mid \in Items, ours \in RateVectors, others \in Populations,
          use_genres \in BOOLEAN, f \in ModeFlags :
         \E our_avg \in AvgChoices(ours),
            movies \in (IF use_genres THEN RatingCatalogs
                        ELSE {[i \in Items |-> <<"A">>]}) :
           call = [mid |-> mid, movies |-> movies, our_user_ratings |-> ours,
                   all_other_user_ratings |-> others, our_avg |-> our_avg,
                   use_genres |-> use_genres, cosine |-> f.cosine,
                   euclidean |-> f.euclidean]
    /\ prediction = Idle
    /\ vectors = Idle
    /\ similarity = Idle
    /\ uid_to_ratings = Idle
    /\ mid_to_uids = Idle
    /\ catalog = Idle
    /\ ratio = Idle
    /\ user_idx = Idle
    /\ item_idx = Idle
    /\ dif = Idle
    /\ length = Idle
    /\ rmse = Idle
    /\ draws = Idle
    /\ samples = Idle
    /\ set_order = Idle
    /\ ratings_csv = Idle
    /\ movies_csv = Idle
    /\ request = Idle
    /\ next_idx = Idle
    /\ printed = Idle
    /\ failure = Idle
    /\ relevant = Idle

CallGetRating ==
    /\ pc = "get_rating"
    /\ prediction' = GetRatingRun(call.mid, call.movies, call.our_user_ratings,
                                  call.all_other_user_ratings, call.our_avg,
                                  call.use_genres, call.cosine, call.euclidean)
    /\ pc' = "returned"
    /\ UNCHANGED <<call, simVars, cvVars, serveVars>>

NextRating == CallGetRating

SpecRating == InitRating /\ [][NextRating]_vars

\* The neighbours of the call's population who rated item
Raters(item) ==
    {i \in DOMAIN call.all_other_user_ratings : Has(call.all_other_user_ratings[i], item)}

\* Neighbour i's rating of item minus the average of its full vector
Deviation(i, item) ==
    Get(call.all_other_user_ratings[i], item)
        - Average(call.all_other_user_ratings[i]).val

\* The measure the flags select, between the primary vector and neighbour i's
Measure(i) ==
    IF call.cosine
    THEN cosine_similarity(call.our_user_ratings, call.all_other_user_ratings[i])
    ELSE IF call.euclidean
    THEN euclidean_distance(call.our_user_ratings, call.all_other_user_ratings[i])
    ELSE pearson_correlation(call.our_user_ratings, call.all_other_user_ratings[i],
                             call.our_avg, Average(call.all_other_user_ratings[i]).val)

Contributors == {prediction.contrib[j].nb : j \in DOMAIN prediction.contrib}

\* C1: without genres, get_rating returns
\* our_avg + (sum of deviation_i * weight_i) / (sum of |weight_i|) over exactly
\* the neighbours whose vector holds the target item, deviation_i being the
\* neighbour's rating of it minus the neighbour's average and weight_i the
\* selected measure; the other neighbours contribute to neither sum.  (A
\* measure that raises, or a zero sum of |weight_i|, is a ZeroDivisionError.)
C1_WeightedDeviation ==
    (pc = "returned" /\ ~call.use_genres) =>
        LET S == Raters(call.mid)
            numer == SumOver([i \in S |-> Mul(Deviation(i, call.mid), Measure(i).val)], S)
            denom == SumOver([i \in S |-> Abs(Measure(i).val)], S)
        IN IF (\E i \in S : Raised(Measure(i))) \/ denom = 0
           THEN prediction.result = ZeroDivisionError
           ELSE /\ Contributors = S
                /\ \A j \in DOMAIN prediction.contrib :
                     /\ prediction.contrib[j].diff
                          = Deviation(prediction.contrib[j].nb, call.mid)
                     /\ prediction.contrib[j].weight
                          = Measure(prediction.contrib[j].nb).val
                /\ prediction.result
                     = Return(call.our_avg + RoundDiv(numer * Scale, denom))

C1_Witness ==
    /\ pc = "returned"
    /\ ~call.use_genres
    /\ ~call.cosine
    /\ ~call.euclidean
    /\ Cardinality(Raters(call.mid)) = 1
    /\ Len(call.all_other_user_ratings) = 2
    /\ \E j \in DOMAIN prediction.contrib : prediction.contrib[j].weight < 0
    /\ ~Raised(prediction.result)
    /\ prediction.result.val /= call.our_avg

\* The call is one the callers make: a non-empty primary vector and its average
CallerLike ==
    /\ call.our_user_ratings /= <<>>
    /\ call.our_avg = Average(call.our_user_ratings).val

\* C2: with genres, get_rating predicts the item the caller passed: the
\* neighbours that contribute are exactly those whose vector holds the
\* caller's target item, each with the deviation of its rating of that item.
C2_GenrePredictsCallersItem ==
    (pc = "returned" /\ call.use_genres /\ CallerLike) =>
        /\ prediction.mid = call.mid
        /\ Contributors \subseteq Raters(call.mid)
        /\ ~Raised(prediction.result) => Contributors = Raters(call.mid)
        /\ \A j \in DOMAIN prediction.contrib :
             prediction.contrib[j].diff = Deviation(prediction.contrib[j].nb, call.mid)

\* The genre weight between the primary vector and neighbour i's under the
\* metric the caller's flags select, with the logarithmic term frequency and
\* the smoothed idf
SelectedGenreWeight(i) ==
    get_genre_weight(call.our_user_ratings, call.all_other_user_ratings[i],
                     get_genre_frequencies(call.our_user_ratings, call.movies),
                     call.movies, Corpus(call.all_other_user_ratings, call.movies),
                     Len(call.all_other_user_ratings),
                     PyBool(call.cosine), PyBool(call.euclidean),
                     FALSE, FALSE, TRUE, TRUE)

\* C3: with genres, every contributing neighbour is weighted by the metric the
\* caller selected over the two tf-idf vectors (cosine flag: cosine similarity,
\* euclidean flag: Euclidean distance, neither: Pearson correlation), the
\* term-frequency policy staying logarithmic and the idf smoothed.
C3_GenreUsesSelectedMetric ==
    (pc = "returned" /\ call.use_genres /\ CallerLike) =>
        \A j \in DOMAIN prediction.contrib :
            Return(prediction.contrib[j].weight)
                = SelectedGenreWeight(prediction.contrib[j].nb)

\* ------------------------------------------------------- cross-validation
MaxUsers == 2
NumTableItems == 3
DrawLevels == 2

TableItems == 1..NumTableItems

Modes == {"pearson", "cosine", "euclidean", "genre"}

RECURSIVE Ascending(_)
\* The elements of a set of numbers, in ascending order
Ascending(S) == IF S = {} THEN <<>>
                ELSE LET m == CHOOSE x \in S : \A y \in S : x <= y
                     IN <<m>> \o Ascending(S \ {m})

\* The rating tables: every user of the table has at least one row, and a
\* user's rows come in ascending order of the item, as in ratings.csv
TableVectors == UNION {DictsOn(Ascending(K), RatingValues) : K \in SUBSET TableItems \ {{}}}
Tables == SeqsUpTo(TableVectors, MaxUsers)
TableCatalogs == {[i \in TableItems |-> IF i % 2 = 1 THEN <<"A">> ELSE <<"B">>],
                  [i \in TableItems |-> <<"A", "B">>]}

\* ratio = percent / 100, for a percent of 50 and of 100
Ratios == {Scale \div 2, Scale}

\* random() is in [0, 1)
Draws == {(k * Scale) \div DrawLevels : k \in 0..(DrawLevels - 1)}

\* mid -> the uids with a row for mid
MidToUids(table) ==
    [m \in UNION {Keys(table[u]) : u \in DOMAIN table} |->
        {u \in DOMAIN table : Has(table[u], m)}]

\* The orders a set can be iterated in
Orders(S) == {a \in Arrangements(S, Cardinality(S)) : Len(a) = Cardinality(S)}

\* The condition of the continue: one or no rating, or the draw is not below ratio
SkipsUnrated(current_user_ratings, draw, r) ==
    Len(current_user_ratings) < 1 \/ draw >= r

Skips(current_user_ratings, draw, r) ==
    Len(current_user_ratings) <= 1 \/ draw >= r

\* d without its i-th entry
Without(d, i) == SubSeq(d, 1, i - 1) \o SubSeq(d, i + 1, Len(d))

\* One try block with every except clause shrinking the cosine count
TryBlockCosineLength(acc, mode, real_rating, r) ==
    IF Raised(r)
    THEN [acc EXCEPT !.length["cosine"] = @ - 1]
    ELSE [acc EXCEPT !.dif[mode] = @ + Mul(real_rating - r.val, real_rating - r.val)]

\* One try block: the squared error is added to the mode's sum, or, on a
\* ZeroDivisionError, the mode's count shrinks by one
TryBlock(acc, mode, real_rating, r) ==
    IF Raised(r)
    THEN [acc EXCEPT !.length[mode] = @ - 1]
    ELSE [acc EXCEPT !.dif[mode] = @ + Mul(real_rating - r.val, real_rating - r.val)]

\* The four get_rating calls for one held-out item
Predictions(test_mid, movies, test_ratings, all_other_user_ratings, our_avg) ==
    [mode \in Modes |->
        get_rating(test_mid, movies, test_ratings, all_other_user_ratings, our_avg,
                   mode = "genre", mode = "cosine", mode = "euclidean")]

InitCV ==
    /\ pc = "users"
    /\ uid_to_ratings \in Tables
    /\ mid_to_uids = MidToUids(uid_to_ratings)
    /\ catalog \in TableCatalogs
    /\ ratio \in Ratios
    /\ user_idx = 1
    /\ item_idx = 0
    /\ dif = [mode \in Modes |-> 0]
    /\ length = [mode \in Modes |-> 0]
    /\ rmse = Idle
    /\ draws = <<>>
    /\ samples = <<>>
    /\ set_order \in Orders(DOMAIN uid_to_ratings)
    /\ ratings_csv = Idle
    /\ movies_csv = Idle
    /\ request = Idle
    /\ next_idx = Idle
    /\ printed = Idle
    /\ failure = Idle
    /\ relevant = Idle
    /\ vectors = Idle
    /\ similarity = Idle
    /\ call = Idle
    /\ prediction = Idle

\* The head of the loop over the users: skip the user or enter the item loop.
\* random() is called only when the user has more than one rating
NextUser ==
    /\ pc = "users"
    /\ user_idx <= Len(uid_to_ratings)
    /\ LET current_user_ratings == uid_to_ratings[user_idx]
       IN \E draw \in (IF Len(current_user_ratings) <= 1 THEN {0} ELSE Draws) :
            /\ draws' = Append(draws, [drawn |-> Len(current_user_ratings) > 1,
                                       value |-> draw])
            /\ IF Skips(current_user_ratings, draw, ratio)
               THEN /\ user_idx' = user_idx + 1
                    /\ UNCHANGED <<pc, item_idx, length>>
               ELSE /\ length' = [mode \in Modes |->
                                     length[mode] + Len(current_user_ratings)]
                    /\ pc' = "items"
                    /\ item_idx' = 1
                    /\ UNCHANGED user_idx
    /\ UNCHANGED <<uid_to_ratings, mid_to_uids, catalog, ratio, dif, rmse, samples, set_order>>
    /\ UNCHANGED <<simVars, rateVars, serveVars>>

\* One pass of the loop over the user's items: hold the item out and predict
\* it in the four modes.  The set mid_to_uids[test_mid] is iterated in set_order
HoldOut ==
    /\ pc = "items"
    /\ LET current_user_ratings == uid_to_ratings[user_idx]
           test_mid == current_user_ratings[item_idx][1]
           real_rating == current_user_ratings[item_idx][2]
           test_ratings == Without(current_user_ratings, item_idx)
           our_avg == Average(test_ratings)
           uids == SelectSeq(set_order, LAMBDA u : u \in mid_to_uids[test_mid])
       IN \E preds \in {Predictions(test_mid, catalog, test_ratings,
                                    [j \in DOMAIN uids |-> uid_to_ratings[uids[j]]],
                                    our_avg.val)} :
            LET uncaught == {mode \in Modes : Raised(preds[mode])
                                /\ preds[mode] /= ZeroDivisionError}
                acc == TryBlock(TryBlock(TryBlock(TryBlock(
                           [dif |-> dif, length |-> length],
                           "pearson", real_rating, preds["pearson"]),
                           "cosine", real_rating, preds["cosine"]),
                           "euclidean", real_rating, preds["euclidean"]),
                           "genre", real_rating, preds["genre"])
            IN IF Raised(our_avg) \/ uncaught /= {}
               THEN /\ rmse' = (IF Raised(our_avg) THEN our_avg
                                ELSE preds[CHOOSE mode \in uncaught : TRUE])
                    /\ pc' = "cv_done"
                    /\ UNCHANGED <<dif, length, samples, user_idx, item_idx>>
               ELSE /\ dif' = acc.dif
                    /\ length' = acc.length
                    /\ samples' = Append(samples,
                          [uid |-> user_idx, mid |-> test_mid, neighbors |-> uids,
                           real_rating |-> real_rating, preds |-> preds])
                    /\ IF item_idx < Len(current_user_ratings)
                       THEN item_idx' = item_idx + 1 /\ UNCHANGED <<pc, user_idx>>
                       ELSE /\ pc' = "users"
                            /\ user_idx' = user_idx + 1
                            /\ UNCHANGED item_idx
                    /\ UNCHANGED rmse
    /\ UNCHANGED <<uid_to_ratings, mid_to_uids, catalog, ratio, draws, set_order>>
    /\ UNCHANGED <<simVars, rateVars, serveVars>>

\* sqrt(dif / length) of one mode
Rmse(mode) == Then(Div(dif[mode], Real(length[mode])), LAMBDA q : Return(Sqrt(q)))

\* The return statement: the four roots, cosine first
Report ==
    /\ pc = "users"
    /\ user_idx > Len(uid_to_ratings)
    /\ rmse' = (LET rs == <<Rmse("cosine"), Rmse("pearson"), Rmse("euclidean"), Rmse("genre")>>
                IN IF Raised(FirstRaised(rs)) THEN FirstRaised(rs)
                   ELSE Return([i \in DOMAIN rs |-> rs[i].val]))
    /\ pc' = "cv_done"
    /\ UNCHANGED <<uid_to_ratings, mid_to_uids, catalog, ratio, user_idx, item_idx, dif,
                   length, draws, samples, set_order>>
    /\ UNCHANGED <<simVars, rateVars, serveVars>>

NextCV == NextUser \/ HoldOut \/ Report

SpecCV == InitCV /\ [][NextCV]_vars

\* C4: for every held-out sample (u, m), the population passed to the four
\* get_rating calls holds only vectors of users other than u who rated m.
C4_PopulationExcludesUser ==
    pc \in {"users", "items", "cv_done"} =>
        \A k \in DOMAIN samples :
            /\ samples[k].uid \notin Range(samples[k].neighbors)
            /\ \A u \in Range(samples[k].neighbors) :
                 Has(uid_to_ratings[u], samples[k].mid)

\* The processed samples for which the mode's prediction did not raise
Successes(mode) == {k \in DOMAIN samples : ~Raised(samples[k].preds[mode])}

\* The squared error of sample k in a mode
SquaredError(k, mode) ==
    Mul(samples[k].real_rating - samples[k].preds[mode].val,
        samples[k].real_rating - samples[k].preds[mode].val)

\* The items of the user in the item loop that are not processed yet (the count
\* is credited with all of a user's items when the user is included)
Pending == IF pc = "items" THEN Len(uid_to_ratings[user_idx]) - (item_idx - 1) ELSE 0

C6_NeverAborts == pc = "cv_done" => ~Raised(rmse)

\* The users the loop has decided on
Decided == IF pc \in {"users", "items", "cv_done"} THEN DOMAIN draws ELSE {}

\* The claim's criterion: two or more ratings and a draw below the ratio
Eligible(u) == Len(uid_to_ratings[u]) >= 2 /\ draws[u].value < ratio

MaxRequest == 3

\* The item identifiers of the served table: 1, 12, 13, ...
MovieIds == {1} \cup {10 + k : k \in 2..NumItems}

RECURSIVE Digits(_)
\* str(n)
Digits(n) == IF n < 10 THEN <<n>> ELSE Append(Digits(n \div 10), n % 10)

\* a in b, for two strings: a occurs in b
StrIn(a, b) ==
    \E i \in 0..(Len(Digits(b)) - Len(Digits(a))) :
        SubSeq(Digits(b), i + 1, i + Len(Digits(a))) = Digits(a)

\* d[k] = v
DictSet(d, k, v) ==
    IF Has(d, k) THEN [i \in DOMAIN d |-> IF d[i][1] = k THEN <<k, v>> ELSE d[i]]
    ELSE Append(d, <<k, v>>)

\* The rows of a table: user by user, each user's rows in the vector's order
RECURSIVE RowsOf(_, _)
RowsOf(table, u) ==
    IF u > Len(table) THEN <<>>
    ELSE [i \in DOMAIN table[u] |-> <<u, table[u][i][1], table[u][i][2]>>]
            \o RowsOf(table, u + 1)

\* What the end of a user's rows does with the vector collected for it
Flush(st, user_id) ==
    IF user_id = st.current_uid
    THEN [st EXCEPT !.our_user_ratings = <<st.user_ratings>>]
    ELSE IF st.insert
    THEN [st EXCEPT !.all_other_user_ratings = Append(@, st.user_ratings)]
    ELSE st

\* The loop of get_relevant_user_ratings over the rows from row i on.
\* our_user_ratings is <<>> while the name is unbound, else <<the vector>>
RECURSIVE ReadRows(_, _, _, _, _)
ReadRows(rows, i, st, user_id, movie_ids) ==
    IF i > Len(rows) THEN st
    ELSE LET uid == rows[i][1]
             mid == rows[i][2]
             rating == rows[i][3]
             s1 == IF st.current_uid /= uid
                   THEN [Flush(st, user_id) EXCEPT !.current_uid = uid,
                                                   !.user_ratings = <<>>,
                                                   !.insert = FALSE]
                   ELSE st
             s2 == IF StrIn(mid, movie_ids) THEN [s1 EXCEPT !.insert = TRUE] ELSE s1
         IN ReadRows(rows, i + 1, [s2 EXCEPT !.user_ratings = DictSet(@, mid, rating)],
                     user_id, movie_ids)

\* get_relevant_user_ratings(user_id, movie_ids, full): movie_ids is the one
\* identifier get_predicted_ratings passes, a string.  No uid equals the
\* initial current_uid, the number 0
get_relevant_user_ratings(user_id, movie_ids, rows) ==
    LET st == Flush(ReadRows(rows, 1,
                             [all_other_user_ratings |-> <<>>, user_ratings |-> <<>>,
                              current_uid |-> 0, insert |-> FALSE,
                              our_user_ratings |-> <<>>],
                             user_id, movie_ids),
                    user_id)
    IN IF st.our_user_ratings = <<>> THEN Raise("UnboundLocalError")
       ELSE Return([our_user_ratings |-> st.our_user_ratings[1],
                    all_other_user_ratings |-> st.all_other_user_ratings])

\* get_movies_from_ids(movie_ids, get_all, full): the catalogue, or its rows
\* whose identifier is in the list movie_ids
get_movies_from_ids(movie_ids, get_all, rows) ==
    IF get_all THEN rows
    ELSE [m \in {m \in DOMAIN rows : m \in Range(movie_ids)} |-> rows[m]]

\* One pass of the loop of get_predicted_ratings: the pair it yields, or the
\* exception it raises
PredictOne(user_id, mid, movies, rows, use_genres, cosine, euclidean) ==
    Then(get_relevant_user_ratings(user_id, mid, rows), LAMBDA rel :
    Then(Average(rel.our_user_ratings), LAMBDA our_avg :
    Then(get_rating(mid, movies, rel.our_user_ratings, rel.all_other_user_ratings,
                    our_avg, use_genres, cosine, euclidean), LAMBDA rating :
         Return(<<mid, rating>>))))

ServeVectors == UNION {DictsOn(ks, RatingValues) : ks \in Arrangements(MovieIds, NumItems)}
ServeTables == SeqsUpTo(ServeVectors \ {<<>>}, MaxUsers)

\* The requests: one to MaxRequest identifiers of the catalogue
Requests == SeqsUpTo(MovieIds, MaxRequest) \ {<<>>}

InitServe ==
    /\ pc = "serving"
    /\ \E table \in ServeTables : ratings_csv = RowsOf(table, 1)
    /\ movies_csv = [m \in MovieIds |-> IF m = 1 THEN <<"A">> ELSE <<"A", "B">>]
    /\ \E user_id \in 1..MaxUsers, movie_ids \in Requests,
          use_genres \in BOOLEAN, f \in ModeFlags :
         request = [user_id |-> user_id, movie_ids |-> movie_ids,
                    use_genres |-> use_genres, cosine |-> f.cosine,
                    euclidean |-> f.euclidean]
    /\ next_idx = 1
    /\ printed = <<>>
    /\ failure = "none"
    /\ relevant = Idle
    /\ vectors = Idle
    /\ similarity = Idle
    /\ call = Idle
    /\ prediction = Idle
    /\ uid_to_ratings = Idle
    /\ mid_to_uids = Idle
    /\ catalog = Idle
    /\ ratio = Idle
    /\ user_idx = Idle
    /\ item_idx = Idle
    /\ dif = Idle
    /\ length = Idle
    /\ rmse = Idle
    /\ draws = Idle
    /\ samples = Idle
    /\ set_order = Idle

\* main asks the generator for the next pair and prints it; an exception
\* raised inside the generator leaves main's loop and ends the program
ServeNext ==
    /\ pc = "serving"
    /\ next_idx <= Len(request.movie_ids)
    /\ \E r \in {PredictOne(request.user_id, request.movie_ids[next_idx],
                            get_movies_from_ids(request.movie_ids, request.use_genres,
                                                movies_csv),
                            ratings_csv, request.use_genres, request.cosine,
                            request.euclidean)} :
         IF Raised(r)
         THEN /\ failure' = r.exc
              /\ pc' = "failed"
              /\ UNCHANGED <<printed, next_idx>>
         ELSE /\ printed' = Append(printed, r.val)
              /\ next_idx' = next_idx + 1
              /\ UNCHANGED <<failure, pc>>
    /\ relevant' = [mid |-> request.movie_ids[next_idx],
                    result |-> get_relevant_user_ratings(request.user_id,
                                                         request.movie_ids[next_idx],
                                                         ratings_csv)]
    /\ UNCHANGED <<ratings_csv, movies_csv, request>>
    /\ UNCHANGED <<simVars, rateVars, cvVars>>

\* The generator is exhausted: main's loop ends
ServeEnd ==
    /\ pc = "serving"
    /\ next_idx > Len(request.movie_ids)
    /\ pc' = "served"
    /\ UNCHANGED <<serveVars, simVars, rateVars, cvVars>>

NextServe == ServeNext \/ ServeEnd

SpecServe == InitServe /\ [][NextServe]_vars

\* C7: a division by zero while predicting one item of the request is not
\* recovered and costs only that item's output: the pairs of the items before
\* it are already produced, in request order, and the items after it are still
\* predicted and produced.
C7_FailureCostsOneItem ==
    (pc = "failed" /\ failure = "ZeroDivisionError") =>
        /\ [j \in DOMAIN printed |-> printed[j][1]]
             = SubSeq(request.movie_ids, 1, next_idx - 1)
        /\ \A j \in (next_idx + 1)..Len(request.movie_ids) :
             \E k \in DOMAIN printed : printed[k][1] = request.movie_ids[j]

\* The vector ratings.csv holds for user u: its rows, in the file's order
UserVector(u) ==
    LET rows == SelectSeq(ratings_csv, LAMBDA row : row[1] = u)
    IN [i \in DOMAIN rows |-> <<rows[i][2], rows[i][3]>>]

\* The users of ratings.csv, in the file's order
FileUsers == Distinct([i \in DOMAIN ratings_csv |-> ratings_csv[i][1]])

\* The full vectors of the users, other than user_id, who rated item mid
RatersOf(user_id, mid) ==
    LET uids == SelectSeq(FileUsers, LAMBDA u : u /= user_id /\ Has(UserVector(u), mid))
    IN [i \in DOMAIN uids |-> UserVector(uids[i])]

\* C11: in the serving path, the population get_relevant_user_ratings builds
\* for a requested item consists exactly of the full vectors of the users,
\* other than the requesting user, who rated that item; a user who rated only
\* other items is never in it.
C11_PopulationIsRaters ==
    (relevant /= Idle /\ ~Raised(relevant.result)) =>
        relevant.result.val.all_other_user_ratings
            = RatersOf(request.user_id, relevant.mid)

\* ------------------------------------------------ get_genre_weight, called
\* Every assignment of one or two genre labels to the items
GenreCatalogs == [Items -> {<<"A">>, <<"B">>, <<"A", "B">>}]

\* The term-frequency policies a call can select besides the default
TfPolicies == {p \in [augmented : BOOLEAN, boolean : BOOLEAN] : ~(p.augmented /\ p.boolean)}

\* A call as get_rating prepares it: the compared user is the first of the
\* population; corpus, n and our_genre_frequencies are computed from the
\* population and the primary user's vector
InitGenre ==
    /\ pc = "get_genre_weight"
    /\ \E ours \in RateVectors, other \in RateVectors \ {<<>>},
          rest \in SeqsUpTo(RateVectors \ {<<>>}, MaxPop - 1),
          movies \in GenreCatalogs, f \in ModeFlags, p \in TfPolicies :
         call = [our_user_ratings |-> ours, other_user_ratings |-> other,
                 our_genre_frequencies |-> get_genre_frequencies(ours, movies),
                 movies |-> movies,
                 corpus |-> Corpus(<<other>> \o rest, movies),
                 n |-> 1 + Len(rest),
                 cosine |-> PyBool(f.cosine), euclidean |-> PyBool(f.euclidean),
                 augmented |-> p.augmented, boolean |-> p.boolean]
    /\ prediction = Idle
    /\ vectors = Idle
    /\ similarity = Idle
    /\ uid_to_ratings = Idle
    /\ mid_to_uids = Idle
    /\ catalog = Idle
    /\ ratio = Idle
    /\ user_idx = Idle
    /\ item_idx = Idle
    /\ dif = Idle
    /\ length = Idle
    /\ rmse = Idle
    /\ draws = Idle
    /\ samples = Idle
    /\ set_order = Idle
    /\ ratings_csv = Idle
    /\ movies_csv = Idle
    /\ request = Idle
    /\ next_idx = Idle
    /\ printed = Idle
    /\ failure = Idle
    /\ relevant = Idle

\* get_genre_weight builds the two vectors and hands them to the similarity
\* function; vectors stays Idle when a tf_idf call raised before that
CallGenreWeight ==
    /\ pc = "get_genre_weight"
    /\ \E v \in {genre_vectors(call.our_user_ratings, call.other_user_ratings,
                               call.our_genre_frequencies, call.movies, call.corpus,
                               call.n, call.augmented, call.boolean, TRUE, TRUE)} :
         /\ vectors' = IF Raised(v) THEN Idle ELSE v.val
         /\ similarity' = Then(v, LAMBDA w : genre_similarity(w.our_vector, w.other_vector,
                                                              call.cosine, call.euclidean))
    /\ pc' = "weighed"
    /\ UNCHANGED <<call, prediction, cvVars, serveVars>>

NextGenre == CallGenreWeight

SpecGenre == InitGenre /\ [][NextGenre]_vars

\* The genres attached to the items of a vector
GenresOf(user_ratings, movies) == Range(GenreTokens(user_ratings, movies))

\* C12: the two tf-idf vectors get_genre_weight hands to the similarity
\* function have the same key set, the union of the genres of the primary
\* user's rated items.  The compared user's vector has an entry for every such
\* genre, computed from the compared user's own genre counts (a count of 0,
\* hence a logarithmic or boolean term frequency of 0, when the compared user
\* never met the genre), and no entry for a genre only the compared user met.
C12_SameGenreKeys ==
    (pc = "weighed" /\ vectors /= Idle) =>
        LET primary == GenresOf(call.our_user_ratings, call.movies)
            compared == GenresOf(call.other_user_ratings, call.movies)
            counts == get_genre_frequencies(call.other_user_ratings, call.movies)
        IN /\ Keys(vectors.our_vector) = primary
           /\ Keys(vectors.other_vector) = primary
           /\ Len(vectors.other_vector) = Cardinality(primary)
           /\ Keys(vectors.other_vector) \cap (compared \ primary) = {}
           /\ \A g \in primary :
                /\ Get(vectors.other_vector, g)
                     = tf_idf(counts, g, call.corpus, call.n,
                              call.augmented, call.boolean, TRUE, TRUE).val
                /\ g \notin compared => FreqGet(counts, g) = 0
                /\ (g \notin compared /\ ~call.augmented) =>
                     Get(vectors.other_vector, g) = 0

C12_Witness ==
    /\ pc = "weighed"
    /\ vectors /= Idle
    /\ ~Raised(similarity)
    /\ GenresOf(call.other_user_ratings, call.movies)
         \ GenresOf(call.our_user_ratings, call.movies) /= {}
    /\ GenresOf(call.our_user_ratings, call.movies)
         \ GenresOf(call.other_user_ratings, call.movies) /= {}
    /\ \E i \in DOMAIN vectors.our_vector : vectors.our_vector[i][2] /= 0

====
